---- MODULE Spec2Model ----
(***************************************************************************)
(* ChitterProvider (src/client/index.tsx): the React context provider that *)
(* owns one ReconnectingWebSocket, the connected flag, the room list and   *)
(* the per-room message logs.                                              *)
(*                                                                         *)
(* How the React and library runtime is read:                              *)
(*  - useState values are the values last passed to their setters; a      *)
(*    setter called on an unmounted component changes nothing.             *)
(*  - the useEffect of lines 56-114 is a passive effect: React runs it     *)
(*    (cleanup of the previous run, then the body) as a step of its own,   *)
(*    some time after a render in which `server` or `messages` is a new    *)
(*    value.  Events of the socket may be handled before that step.        *)
(*  - every listener closes over the `messages` object of the render its   *)
(*    effect run belongs to; arrays are heap objects shared by reference.  *)
(*  - reconnecting-websocket, constructed at line 74 with no               *)
(*    maxEnqueuedMessages option, keeps frames given to send() while the   *)
(*    socket is not open and writes them when it opens; after close() the  *)
(*    only event a socket still reports is its close event, so a closed    *)
(*    socket is kept only as one more close event to come.                 *)
(*  - the Chitterer (example/src/components/Chitterer.tsx) is the consumer *)
(*    under the provider; its effect runs as a step of its own, before the *)
(*    next render that gives it another `connected`.                       *)
(*  - a page load in the same tab is a new instance of the provider with   *)
(*    the sessionStorage the former instance left.                         *)
(***************************************************************************)
EXTENDS Naturals, Sequences, FiniteSets, TLC

VARIABLES
  mounted,    \* the provider component is mounted
  server,     \* the `server` prop of the latest render
  connected,  \* useState(false), line 48
  rooms,      \* useState<RoomID[]>([]), line 49
  messages,   \* useState<Record<RoomID, ChitterMessage[]>>({}), line 50: [id, map]
  heap,       \* the arrays the message records point to
  socket,     \* connection.current, line 53 (NoSocket = undefined)
  closing,    \* sockets closed by close() whose close event is still to come
  effDeps,    \* the dependency values of the last effect run
  delivered,  \* history: per room, the ChatMessage frames handled, in order
  last,       \* history: the last step taken
  prev,       \* history: connected, rooms and logs before the last step
  clientID,   \* clientID.current, line 41
  storage,    \* sessionStorage["chitter:id"], "" when absent
  usedIds,    \* history: the client ids put in a connection query or a message
  maxUnclosed, \* history: the most sockets there have been with close() not yet called
  seen,       \* Chitterer: the `connected` of the last run of its effect ({} before it)
  joined      \* history: a join for the Chitterer's room was written to
              \* connection.current since it last opened

vars == <<mounted, server, connected, rooms, messages, heap, socket, closing,
          effDeps, delivered, last, prev,
          clientID, storage, usedIds,
          maxUnclosed,
          seen, joined>>

(* ------------------------------ bounds -------------------------------- *)
MaxMsgs == 2
MaxClosing == 1
MaxQueue == 1

(* ------------------------------ values -------------------------------- *)
Rooms == {"R", "S"}
Servers == {"ws://a", "ws://b"}
\* "u" is the id sendMessage gives its message: a frame with it is the echo
MsgIds == {"m1", "u"}
RoomLists == {<<"S">>, <<"R", "S">>}
CallRooms == {"R"}
\* the room of the Chitterer (its `room` prop)
ConsumerRoom == "R"
Contents == {"hi"}

\* the values uuidv4() gives at line 41, a new one each time
IdPool == <<"c1", "c2", "c3">>

\* sessionStorage.getItem("chitter:id") || uuidv4(), line 41
InitialClientID(item, used) == IF item # "" THEN item ELSE IdPool[Cardinality(used) + 1]

\* inbound {rooms: string[]}
RoomsFrames == {[rooms |-> L] : L \in RoomLists}

\* inbound {type:"message", id, room, ...}; the other fields are not read
ChatFrames == {[type |-> "message", id |-> i, room |-> r] : i \in MsgIds, r \in Rooms}

\* valid JSON that is neither of the two
OtherFrames == {[foo |-> "bar"]}

\* data that is not JSON; every other frame stands for the value its data parses to
BadFrames == {[invalid |-> "{oops"]}

InboundFrames == RoomsFrames \cup ChatFrames \cup OtherFrames \cup BadFrames

NoFrame == [none |-> TRUE]
NoSocket == [status |-> "none"]
NoDeps == [none |-> TRUE]

(* ------------------------------ helpers ------------------------------- *)
RECURSIVE Reverse(_)
Reverse(s) == IF s = << >> THEN << >> ELSE Append(Reverse(Tail(s)), Head(s))

IsSuffix(s, t) ==
  /\ Len(s) <= Len(t)
  /\ SubSeq(t, Len(t) - Len(s) + 1, Len(t)) = s

RECURSIVE SumLen(_, _)
SumLen(f, S) ==
  IF S = {} THEN 0
  ELSE LET x == CHOOSE y \in S : TRUE IN Len(f[x]) + SumLen(f, S \ {x})

\* JSON.parse(data), line 94, returns a value; if not it throws a SyntaxError
JsonParses(f) == "invalid" \notin DOMAIN f

\* RoomsMessage.guard and ChitterMessage.guard of ../types
IsRoomsMessage(f) == "rooms" \in DOMAIN f
IsChitterMessage(f) ==
  /\ {"type", "id", "room"} \subseteq DOMAIN f
  /\ f.type = "message"

\* messages[room] read through a messages record m
LogOf(m, r) == IF m.map[r] = 0 THEN << >> ELSE heap[m.map[r]]

\* the logs the context hands to its consumers (line 138)
Logs == [r \in Rooms |-> LogOf(messages, r)]

(* ---------------------- the socket (lines 73-75) ---------------------- *)
\* new ReconnectingWebSocket(url?query, [], {startClosed: true}) and its listeners
NewSocket(url, closure) ==
  [status |-> "idle", url |-> url, clientID |-> clientID, closure |-> closure,
   queue |-> << >>]

\* reconnect(), line 109
Reconnect(s) == [s EXCEPT !.status = "connecting"]

\* a send() that discards what it is given while the socket is not open
SendDrop(s, f) == s

\* send(data), lines 118 and 132: written if the socket is open, held if not
Send(s, f) == IF s.status = "open" THEN s ELSE [s EXCEPT !.queue = Append(@, f)]
Written(s, f) == IF s.status = "open" THEN <<f>> ELSE << >>

IsJoinFor(f, r) == f = [type |-> "join", roomID |-> r]
HasJoin(w) == \E i \in DOMAIN w : IsJoinFor(w[i], ConsumerRoom)

(* ---------------------------- the setters ----------------------------- *)
\* the Chitterer's effect is still to run for the latest `connected`
ConsumerPending == mounted /\ seen # {connected}

\* setConnected, line 48; a render with another `connected` comes after the
\* effects of the render before it
SetConnected(v) ==
  /\ (mounted /\ v # connected) => ~ConsumerPending
  /\ connected' = IF mounted THEN v ELSE connected
SetRooms(v) == rooms' = IF mounted THEN v ELSE rooms
SetMessages(v) == messages' = IF mounted THEN v ELSE messages

\* history: the step taken, whether its socket is connection.current ("cur") or a
\* closed one ("old"), its frame, the frames it wrote to the network, and whether
\* the listener ended by throwing
GhostThrew(op, c, f, w, e) ==
  /\ last' = [op |-> op, conn |-> c, frame |-> f, wrote |-> w, threw |-> e]
  /\ prev' = [connected |-> connected, rooms |-> rooms, logs |-> Logs]
Ghost(op, c, f, w) == GhostThrew(op, c, f, w, FALSE)

(* ------------------------------- Init --------------------------------- *)
Init ==
  /\ mounted = TRUE
  /\ server \in Servers
  /\ connected = FALSE
  /\ rooms = << >>
  /\ messages = [id |-> 0, map |-> [r \in Rooms |-> 0]]
  /\ heap = << >>
  /\ socket = NoSocket
  /\ closing = 0
  /\ effDeps = NoDeps
  /\ delivered = [r \in Rooms |-> << >>]
  /\ last = [op |-> "init", conn |-> "none", frame |-> NoFrame, wrote |-> << >>, threw |-> FALSE]
  /\ prev = [connected |-> FALSE, rooms |-> << >>, logs |-> [r \in Rooms |-> << >>]]
  /\ storage = ""
  /\ clientID = InitialClientID("", {})
  /\ usedIds = {}
  /\ maxUnclosed = 0
  /\ seen = {}
  /\ joined = FALSE

(* --------------------- the effect, lines 56-114 ----------------------- *)
\* the dependency array [server, messages] of line 114
EffectStale ==
  IF effDeps = NoDeps THEN TRUE
  ELSE effDeps.server # server \/ effDeps.messages # messages.id

\* a cleanup that calls no close()
CleanupNoClose == closing' = closing

\* the cleanup returned at lines 110-113: close() on connection.current, if any
Cleanup == closing' = IF socket = NoSocket THEN closing ELSE closing + 1

\* the sockets on which close() has not been called: connection.current only
Unclosed == IF socket = NoSocket THEN 0 ELSE 1

\* the count after the cleanup has closed closing' - closing sockets and the
\* body has made one
CountUnclosed ==
  LET n == (Unclosed - (closing' - closing)) + 1
  IN maxUnclosed' = IF n > maxUnclosed THEN n ELSE maxUnclosed

\* an effect that leaves out line 57
RunEffectNoStore ==
  /\ mounted
  /\ EffectStale
  /\ closing < MaxClosing
  /\ Cleanup
  /\ socket' = Reconnect(NewSocket(server, messages))
  /\ effDeps' = [server |-> server, messages |-> messages.id]
  /\ usedIds' = usedIds \cup {clientID}
  /\ CountUnclosed
  /\ joined' = FALSE
  /\ Ghost("effect", "cur", NoFrame, << >>)
  /\ UNCHANGED <<mounted, server, connected, rooms, messages, heap, delivered,
                 clientID, storage,
                 seen>>

\* cleanup of the previous run, then the body: line 57 stores the client id,
\* the cleanup left connection.current undefined, so line 59 closes nothing,
\* lines 64-75 put the client id in the query of the new socket
RunEffect ==
  /\ mounted
  /\ EffectStale
  /\ closing < MaxClosing
  /\ Cleanup
  /\ storage' = clientID
  /\ socket' = Reconnect(NewSocket(server, messages))
  /\ effDeps' = [server |-> server, messages |-> messages.id]
  /\ usedIds' = usedIds \cup {clientID}
  /\ CountUnclosed
  /\ joined' = FALSE
  /\ Ghost("effect", "cur", NoFrame, << >>)
  /\ UNCHANGED <<mounted, server, connected, rooms, messages, heap, delivered,
                 clientID,
                 seen>>

\* the parent renders the provider with another server
ChangeServer(s) ==
  /\ mounted
  /\ s # server
  /\ server' = s
  /\ Ghost("server", "none", NoFrame, << >>)
  /\ UNCHANGED <<mounted, connected, rooms, messages, heap, socket, closing,
                 effDeps, delivered,
                 clientID, storage, usedIds,
                 maxUnclosed,
                 seen, joined>>

\* unmount: React runs the cleanup of the last effect run (an effect still to
\* run for the first time is run before the component is removed)
Unmount ==
  /\ mounted
  /\ effDeps # NoDeps
  /\ closing < MaxClosing
  /\ mounted' = FALSE
  /\ Cleanup
  /\ socket' = NoSocket
  /\ joined' = FALSE
  /\ Ghost("unmount", "none", NoFrame, << >>)
  /\ UNCHANGED <<server, connected, rooms, messages, heap, effDeps, delivered,
                 clientID, storage, usedIds,
                 maxUnclosed,
                 seen>>

\* the page is loaded again in the same tab: a new component instance, lines
\* 41-53, with the sessionStorage of the tab; what the sockets of the former
\* instance still report goes to the setters of that instance
Remount ==
  /\ ~mounted
  /\ mounted' = TRUE
  /\ connected' = FALSE
  /\ rooms' = << >>
  /\ messages' = [id |-> 0, map |-> [r \in Rooms |-> 0]]
  /\ heap' = << >>
  /\ socket' = NoSocket
  /\ closing' = 0
  /\ effDeps' = NoDeps
  /\ delivered' = [r \in Rooms |-> << >>]
  /\ clientID' = InitialClientID(storage, usedIds)
  /\ seen' = {}
  /\ joined' = FALSE
  /\ last' = [op |-> "mount", conn |-> "none", frame |-> NoFrame, wrote |-> << >>, threw |-> FALSE]
  /\ prev' = [connected |-> FALSE, rooms |-> << >>, logs |-> [r \in Rooms |-> << >>]]
  /\ UNCHANGED <<server, storage, usedIds,
                 maxUnclosed>>

(* --------------------- the listeners, lines 81-106 -------------------- *)
\* "open", lines 81-83; the socket writes what it held
OnOpen ==
  /\ socket.status = "connecting"
  /\ socket' = [socket EXCEPT !.status = "open", !.queue = << >>]
  /\ SetConnected(TRUE)
  /\ joined' = HasJoin(socket.queue)
  /\ Ghost("open", "cur", NoFrame, socket.queue)
  /\ UNCHANGED <<mounted, server, rooms, messages, heap, closing, effDeps, delivered,
                 clientID, storage, usedIds,
                 maxUnclosed,
                 seen>>

\* a close listener that also resets the logs
OnCloseClears ==
  /\ socket.status \in {"open", "connecting"}
  /\ socket' = [socket EXCEPT !.status = "connecting"]
  /\ SetConnected(FALSE)
  /\ joined' = FALSE
  /\ SetMessages([id |-> messages.id, map |-> [r \in Rooms |-> 0]])
  /\ Ghost("close", "cur", NoFrame, << >>)
  /\ UNCHANGED <<mounted, server, rooms, heap, closing, effDeps, delivered,
                 clientID, storage, usedIds,
                 maxUnclosed,
                 seen>>

\* "close", lines 84-86, of connection.current: the socket retries
OnClose ==
  /\ socket.status \in {"open", "connecting"}
  /\ socket' = [socket EXCEPT !.status = "connecting"]
  /\ SetConnected(FALSE)
  /\ joined' = FALSE
  /\ Ghost("close", "cur", NoFrame, << >>)
  /\ UNCHANGED <<mounted, server, rooms, messages, heap, closing, effDeps, delivered,
                 clientID, storage, usedIds,
                 maxUnclosed,
                 seen>>

\* "close", lines 84-86, of a socket closed by close(): its listeners are still there
OnCloseOld ==
  /\ closing > 0
  /\ closing' = closing - 1
  /\ SetConnected(FALSE)
  /\ Ghost("close", "old", NoFrame, << >>)
  /\ UNCHANGED <<mounted, server, rooms, messages, heap, socket, effDeps, delivered,
                 clientID, storage, usedIds,
                 maxUnclosed,
                 seen, joined>>

\* a rooms branch that merges the notification into the list
HandleRoomsMerge(f) ==
  /\ SetRooms(rooms \o f.rooms)
  /\ UNCHANGED <<messages, heap, delivered>>

\* lines 95-97
HandleRooms(f) ==
  /\ SetRooms(f.rooms)
  /\ UNCHANGED <<messages, heap, delivered>>

\* lines 98-104: `messages` is the record the listener closed over
HandleChat(f) ==
  LET closed == socket.closure
      ref == closed.map[f.room]
      newRef == IF ref # 0 THEN ref ELSE Len(heap) + 1
      newObj == [id |-> messages.id + 1, map |-> [closed.map EXCEPT ![f.room] = newRef]]
  IN /\ SumLen(delivered, Rooms) < MaxMsgs
     /\ heap' = IF ref # 0 THEN [heap EXCEPT ![ref] = <<f>> \o @]
                ELSE Append(heap, <<f>>)
     /\ SetMessages(newObj)
     /\ delivered' = [delivered EXCEPT ![f.room] = Append(@, f)]
     /\ UNCHANGED rooms

\* a message listener whose first branch has no guard: setRooms(message.rooms)
OnMessageNoGuard(f) ==
  /\ socket.status = "open"
  /\ IF IsChitterMessage(f) THEN HandleChat(f)
     ELSE /\ SetRooms(IF IsRoomsMessage(f) THEN f.rooms ELSE << >>)
          /\ UNCHANGED <<messages, heap, delivered>>
  /\ GhostThrew("message", "cur", f, << >>, ~JsonParses(f))
  /\ UNCHANGED <<mounted, server, connected, socket, closing, effDeps,
                 clientID, storage, usedIds,
                 maxUnclosed,
                 seen, joined>>

\* "message", lines 89-106: line 94 is in no try block, so what JSON.parse
\* throws leaves the listener
OnMessage(f) ==
  /\ socket.status = "open"
  /\ IF ~JsonParses(f) THEN UNCHANGED <<rooms, messages, heap, delivered>>
     ELSE IF IsRoomsMessage(f) THEN HandleRooms(f)
     ELSE IF IsChitterMessage(f) THEN HandleChat(f)
     ELSE UNCHANGED <<rooms, messages, heap, delivered>>
  /\ GhostThrew("message", "cur", f, << >>, ~JsonParses(f))
  /\ UNCHANGED <<mounted, server, connected, socket, closing, effDeps,
                 clientID, storage, usedIds,
                 maxUnclosed,
                 seen, joined>>

(* ----------------------- the commands, 116-133 ------------------------ *)
\* connection.current?.send(...)
SendCurrent(op, f) ==
  IF socket = NoSocket
  THEN /\ socket' = socket
       /\ joined' = joined
       /\ Ghost(op, "none", f, << >>)
  ELSE /\ socket.status = "open" \/ Len(socket.queue) < MaxQueue
       /\ socket' = Send(socket, f)
       /\ joined' = (joined \/ HasJoin(Written(socket, f)))
       /\ Ghost(op, "cur", f, Written(socket, f))

\* a join that sends nothing for a room already in the room list
JoinKnownSkipped(r) ==
  /\ mounted
  /\ IF \E i \in DOMAIN rooms : rooms[i] = r
     THEN socket' = socket /\ joined' = joined /\ Ghost("join", "cur", [type |-> "join", roomID |-> r], << >>)
     ELSE SendCurrent("join", [type |-> "join", roomID |-> r])
  /\ UNCHANGED <<mounted, server, connected, rooms, messages, heap, closing,
                 effDeps, delivered,
                 clientID, storage, usedIds,
                 maxUnclosed,
                 seen>>

\* join, lines 116-119
Join(r) ==
  /\ mounted
  /\ SendCurrent("join", [type |-> "join", roomID |-> r])
  /\ UNCHANGED <<mounted, server, connected, rooms, messages, heap, closing,
                 effDeps, delivered,
                 clientID, storage, usedIds,
                 maxUnclosed,
                 seen>>

\* the ChitterMessage built at lines 122-130 (id: a fresh uuid)
OutMessage(r, t) ==
  [type |-> "message", displayName |-> "", id |-> "u", clientID |-> clientID,
   room |-> r, messageType |-> "text", contents |-> t]

\* a sendMessage that also puts its message on the room's log
SendMessageOptimistic(r, t) ==
  /\ mounted
  /\ usedIds' = usedIds \cup {clientID}
  /\ SendCurrent("send", OutMessage(r, t))
  /\ heap' = Append(heap, <<OutMessage(r, t)>> \o LogOf(messages, r))
  /\ SetMessages([id |-> messages.id, map |-> [messages.map EXCEPT ![r] = Len(heap) + 1]])
  /\ UNCHANGED <<mounted, server, connected, rooms, closing, effDeps, delivered,
                 clientID, storage,
                 maxUnclosed,
                 seen>>

\* sendMessage, lines 121-133
SendMessage(r, t) ==
  /\ mounted
  /\ usedIds' = usedIds \cup {clientID}
  /\ SendCurrent("send", OutMessage(r, t))
  /\ UNCHANGED <<mounted, server, connected, rooms, messages, heap, closing,
                 effDeps, delivered,
                 clientID, storage,
                 maxUnclosed,
                 seen>>

(* -------------- the Chitterer (example/src/components) ---------------- *)
\* useEffect(() => { if (connected) join(room, ...) }, [connected, join, room]),
\* Chitterer.tsx lines 57-64: join (useCallback, no deps) and room do not change
ConsumerEffect ==
  /\ ConsumerPending
  /\ seen' = {connected}
  /\ IF connected
     THEN SendCurrent("consumer", [type |-> "join", roomID |-> ConsumerRoom])
     ELSE /\ socket' = socket
          /\ joined' = joined
          /\ Ghost("consumer", "none", NoFrame, << >>)
  /\ UNCHANGED <<mounted, server, connected, rooms, messages, heap, closing,
                 effDeps, delivered, clientID, storage, usedIds, maxUnclosed>>

(* ------------------------------- Next --------------------------------- *)
Next ==
  \/ RunEffect
  \/ \E s \in Servers : ChangeServer(s)
  \/ Unmount
  \/ Remount
  \/ OnOpen
  \/ OnClose
  \/ OnCloseOld
  \/ \E f \in InboundFrames : OnMessage(f)
  \/ ConsumerEffect
  \/ \E r \in CallRooms : Join(r)
  \/ \E r \in CallRooms : \E t \in Contents : SendMessage(r, t)

Spec == Init /\ [][Next]_vars

(* ------------------------------ claims -------------------------------- *)
IsRoomsStep == last.op = "message" /\ IsRoomsMessage(last.frame)
IsChatStep == last.op = "message" /\ ~IsRoomsMessage(last.frame) /\ IsChitterMessage(last.frame)
IsOtherStep == last.op = "message" /\ ~IsRoomsMessage(last.frame) /\ ~IsChitterMessage(last.frame)
Queue(s) == IF s = NoSocket THEN << >> ELSE s.queue
JoinsIn(w) == {i \in DOMAIN w : w[i].type = "join"}

\* C1: for every room R, logs[R] is the ChatMessage frames delivered for R so far,
\* newest first: every delivered message present, none reordered.
C1_LogOrdering == \A r \in Rooms : Logs[r] = Reverse(delivered[r])

\* C2: in every step, for every room R, logs[R] before the step is a suffix of
\* logs[R] after the step: no step removes or shortens a log.
C2_LogsMonotone == \A r \in Rooms : IsSuffix(prev.logs[r], Logs[r])

\* C3: an open event and a close event each change only the connected flag: the
\* room list, the messages record, the arrays, every logs[room] and the record the
\* listener of the socket prepends to are the same before and after.
C3_DisconnectPreservesHistory ==
  [][last'.op \in {"open", "close"} =>
       /\ UNCHANGED <<mounted, server, rooms, messages, heap, effDeps>>
       /\ Logs' = Logs
       /\ (last'.conn = "cur" => socket'.closure = socket.closure)]_vars

\* a reconnect (connected false -> true) with a log to preserve
C3_Witness ==
  /\ last.op = "open"
  /\ connected /\ ~prev.connected
  /\ Logs["R"] # << >>
  /\ rooms # << >>

\* C4: an event of a socket the manager has closed (cleanup on unmount or on
\* replacement) changes none of connected, knownRooms, logs.
C4_PostDisposeSilence ==
  last.conn = "old" =>
    /\ connected = prev.connected
    /\ rooms = prev.rooms
    /\ Logs = prev.logs

\* C5: while the manager is alive, connected is true exactly when the current
\* socket reported open more recently than close.
C5_ConnectedInvariant == mounted => (connected <=> socket.status = "open")

\* C6: after a RoomsNotification{rooms: L} the room list is L exactly, whatever it
\* was, and logs and connected are what they were.
C6_RoomListReplacement ==
  IsRoomsStep =>
    /\ rooms = last.frame.rooms
    /\ Logs = prev.logs
    /\ connected = prev.connected

\* the list <<"R","S">> replaced by <<"S">>, with a log of R kept
C6_Witness ==
  /\ IsRoomsStep
  /\ prev.rooms = <<"R", "S">>
  /\ rooms = <<"S">>
  /\ Logs["R"] # << >>

\* C7: a frame that is neither a RoomsNotification nor a ChatMessage leaves the
\* room list, every log and connected as they were, and creates no log entry.
C7_MalformedFrameNoOp ==
  IsOtherStep =>
    /\ rooms = prev.rooms
    /\ Logs = prev.logs
    /\ connected = prev.connected

\* {"foo":"bar"} handled when there is a room list and a log to keep
C7_Witness ==
  /\ IsOtherStep
  /\ last.frame = [foo |-> "bar"]
  /\ rooms # << >>
  /\ Logs["S"] # << >>

\* C8: a ChatMessage for room R prepends to logs[R] (creating it if absent) and
\* leaves the room list alone; no step other than a RoomsNotification changes
\* the room list.
C8_MembershipOnlyFromRooms ==
  /\ IsChatStep =>
       /\ Logs[last.frame.room] = <<last.frame>> \o prev.logs[last.frame.room]
       /\ rooms = prev.rooms
  /\ ~IsRoomsStep => rooms = prev.rooms

C10_JoinWhileConnected ==
  [][(last'.op = "join" /\ connected) =>
       /\ last'.conn = "cur"
       /\ \E r \in CallRooms : last'.frame = [type |-> "join", roomID |-> r]
       /\ \/ last'.wrote = <<last'.frame>> /\ socket' = socket
          \/ /\ last'.wrote = << >>
             /\ socket' = [socket EXCEPT !.queue = Append(@, last'.frame)]
       /\ UNCHANGED <<connected, rooms, messages, heap, closing>>
       /\ Logs' = Logs]_vars

\* a join for a room already in the room list, written to the open socket
C10_Witness ==
  /\ last.op = "join"
  /\ connected /\ prev.connected
  /\ \E i \in DOMAIN rooms : rooms[i] = last.frame.roomID
  /\ last.wrote = <<last.frame>>

\* C11: sendMessage changes none of logs, knownRooms, connected; every entry of
\* logs[room], the sender's own message included, is a ChatMessage frame that was
\* handled for that room: without such a frame the message is in no log.
C11_NoOptimisticInsertion ==
  /\ last.op = "send" =>
       /\ Logs = prev.logs
       /\ rooms = prev.rooms
       /\ connected = prev.connected
  /\ \A r \in Rooms : \A i \in DOMAIN Logs[r] :
       \E j \in DOMAIN delivered[r] : delivered[r][j] = Logs[r][i]

\* a message written to the open socket while the log of its room holds no echo
C11_Witness ==
  /\ last.op = "send"
  /\ last.wrote = <<last.frame>>
  /\ last.frame.id = "u"
  /\ Logs[last.frame.room] # << >>
  /\ \A i \in DOMAIN Logs[last.frame.room] : Logs[last.frame.room][i].id # "u"

\* C12: every connection the provider opens in the lifetime of a tab carries the
\* same clientID in its query, and every message sendMessage builds carries that
\* clientID with an empty displayName.
C12_IdentityStability ==
  /\ Cardinality(usedIds) <= 1
  /\ socket # NoSocket => socket.clientID \in usedIds
  /\ storage # "" => storage \in usedIds
  /\ last.op = "send" =>
       /\ last.frame.clientID \in usedIds
       /\ last.frame.displayName = ""

\* a later instance in the tab has taken as its clientID the id the first
\* instance stored and used in its connection queries
C12_Witness ==
  /\ last.op = "mount"
  /\ mounted
  /\ storage = "c1"
  /\ clientID = storage
  /\ usedIds = {clientID}

\* C13: at no moment is there more than one socket on which close() has not been
\* called: an effect run closes the socket of the run before it before it makes
\* its own, for the server of the latest render; connection.current is the
\* socket of the last effect run, and join and sendMessage use it.
C13_SingleLiveConnection ==
  /\ maxUnclosed <= 1
  /\ (mounted /\ effDeps # NoDeps) =>
       /\ socket # NoSocket
       /\ socket.url = effDeps.server
       /\ socket.closure.id = effDeps.messages
  /\ last.op = "effect" =>
       /\ socket.status = "connecting"
       /\ socket.url = server
  /\ (last.op \in {"join", "send"} /\ effDeps # NoDeps) => last.conn = "cur"

\* an effect run for a new server, no ChatMessage handled so far: the socket
\* of the run before it is closed, its close event still to come
C13_Witness ==
  /\ last.op = "effect"
  /\ messages.id = 0
  /\ closing = 1
  /\ maxUnclosed = 1
  /\ socket.url = server

\* C14: the provider closes or replaces its socket only when it is unmounted or
\* the server changes: an effect run is the first of its instance or follows a
\* change of server, and handling an inbound frame leaves connection.current,
\* the sockets closed and connected as they are.
C14_FrameKeepsConnection ==
  [][ /\ last'.op = "effect" => (effDeps = NoDeps \/ effDeps.server # server)
      /\ last'.op = "message" =>
           /\ socket' = socket
           /\ closing' = closing
           /\ connected' = connected ]_vars

\* C15: a frame whose data is not JSON is swallowed: the message listener ends
\* without an error and leaves connected, knownRooms and logs as they were.
C15_DecodeFailureSwallowed ==
  (last.op = "message" /\ ~JsonParses(last.frame)) =>
    /\ ~last.threw
    /\ connected = prev.connected
    /\ rooms = prev.rooms
    /\ Logs = prev.logs

\* nothing the provider or the Chitterer has yet to do: no effect to run, no
\* close event of a closed socket to come
Quiescent ==
  /\ mounted
  /\ ~EffectStale
  /\ ~ConsumerPending
  /\ closing = 0

\* C16: the Chitterer issues no join while connected is false, and once
\* connection.current has opened and nothing is left to run, a join for the
\* Chitterer's room has been written to that connection.
C16_RejoinAfterConnect ==
  /\ (last.op = "consumer" /\ last.frame # NoFrame) => prev.connected
  /\ (Quiescent /\ socket.status = "open") => joined

\* C17: there is no deduplication: handling a ChatMessage lengthens the log of
\* its room by exactly one, so a frame handled k times for a room is k times in
\* the log of that room.
C17_NoDeduplication ==
  /\ IsChatStep =>
       Len(Logs[last.frame.room]) = Len(prev.logs[last.frame.room]) + 1
  /\ \A r \in Rooms : \A f \in ChatFrames :
       Cardinality({i \in DOMAIN Logs[r] : Logs[r][i] = f})
         = Cardinality({j \in DOMAIN delivered[r] : delivered[r][j] = f})

====
